---- MODULE Spec2Model ----
(***************************************************************************)
(* Railway Station Announcer: the Tk controller (main thread), the         *)
(* background initialisation thread, the batch worker (speak_thread), the  *)
(* announcement generator (llm_generator.py), the Silero synthesizer and   *)
(* player (tts_engine.py) and the sounddevice output they share.           *)
(*                                                                         *)
(* A thread's position is pc[self]; one action is one stretch of code of   *)
(* one thread between two accesses to state another thread can touch.      *)
(* Strings are sequences of tokens; a status message is its kind: the      *)
(* progress and diagnostic messages, and the three reports of a run.       *)
(***************************************************************************)
EXTENDS Integers, Sequences, FiniteSets, TLC

\* ------------------------------------------------------------------ bounds

\* Chunks a completion stream yields at most before it ends.
MaxChunks == 2

\* Calls of speak() made on the synthesizer component taken on its own.
MaxCalls == 3

\* Characters of a text given to _normalize_text.
MaxLen == 7
\* The least number num2words refuses to convert (OverflowError); the
\* library's limit scaled down, above every hour and minute of a time.
MaxValue == 100
\* Samples apply_tts returns at most.
MaxSamples == 4

\* Records asked of generate_train_departures.
MaxCount == 3

\* ------------------------------------------------------- program constants

\* main.py:344, trains_to_announce = self.trains[:3]
BatchSize == 3
\* main.py:286, generate_train_departures(8)
NumDepartures == 8

\* tts_engine.py:25, self.sample_rate = 48000
sample_rate == 48000

\* ------------------------------------------------------------------- state

VARIABLES
    pc,               \* position of each thread
    trains,           \* self.trains
    is_speaking,      \* self.is_speaking
    should_stop,      \* self.should_stop, the cancellation token
    speak_btn,        \* speak_btn is tk.NORMAL
    refresh_btn,      \* refresh_btn is tk.NORMAL
    stop_btn,         \* stop_btn is tk.NORMAL
    after,            \* callbacks queued with root.after(0, ...)
    status,           \* text of the status label (its kind)
    announcement,     \* text of the announcement box
    tts_engine,       \* self.tts_engine is not None
    llm_generator,    \* self.llm_generator is not None
    model,            \* SileroTTS.model is not None
    playback_active,  \* SileroTTS._playback_active
    llm,              \* AnnouncementGenerator.llm is not None
    sd,               \* the sounddevice output stream
    batch,            \* speak_thread: trains_to_announce
    i,                \* speak_thread: i of enumerate(trains_to_announce, 1)
    text,             \* speak_thread: text
    gen,              \* generate_announcement: its locals and what it did
    log,              \* history: the steps invoked in this run, in order
    stopAt,           \* history: where the worker was when the token was set
    stopHit,          \* history: stop() found playback active during this speak
    report,           \* history: the report the run ended with
    idleStop,         \* history: the calls of speak() made when stop() last
                      \* found the player idle, -1 before (the synthesizer
                      \* on its own)
    norm,             \* _normalize_text: its argument, its local text, and
                      \* whether its except clause ran
    audio,            \* speak: audio, audio_np and what sd.play was given
    refused,          \* history: _on_speak_click returned at line 333 during
                      \* this run
    dep               \* generate_train_departures: count, base_time and
                      \* departures; the texts format_delay_text made of them

vars == << pc, trains, is_speaking, should_stop, speak_btn, refresh_btn,
           stop_btn, after, status, announcement, tts_engine, llm_generator,
           model, playback_active, llm, sd, batch, i, text, gen, log, stopAt,
           stopHit, report, idleStop, norm, audio, refused, dep >>

\* The threads of the application; the two callers of speak() and the
\* caller of stop() of the synthesizer component taken on its own.
AppThreads == {"main", "init", "worker"}
Callers == {"c1", "c2"}
Stopper == "s0"
Threads == AppThreads \cup Callers \cup {Stopper}

\* stopAt while the token has not been set in this run.
NotStopped == [i |-> 0, synth |-> FALSE]

\* --------------------------------------------------------------- strings

\* Characters a chunk's content is made of: a letter and a blank.
Content == {"w", " "}

\* A stream chunk: a piece of content, or a delta with no 'content' key.
NoContent == "no-content"
Chunks == Content \cup {NoContent}

\* str.strip(): leading and trailing whitespace removed.
RECURSIVE LStrip(_)
LStrip(s) == IF s # << >> /\ Head(s) = " " THEN LStrip(Tail(s)) ELSE s

RECURSIVE RStrip(_)
RStrip(s) ==
    IF s # << >> /\ s[Len(s)] = " " THEN RStrip(SubSeq(s, 1, Len(s) - 1)) ELSE s

Strip(s) == RStrip(LStrip(s))

\* llm_generator.py:111
SystemUnavailable == << "System unavailable." >>

\* llm_generator.py:148
InterruptedText == << "[Interrupted]" >>

\* llm_generator.py:160
FallbackSentence(train) ==
    << "Attention. Train ", train.train_number, " to ", train.destination,
       " is delayed." >>

Contains(s, tok) == \E k \in 1..Len(s) : s[k] = tok

\* --------------------------------------------------------------- records

TrainNumbers == << "#1", "#2", "#3", "#4", "#5", "#6", "#7", "#8" >>
Stations == << "Boston", "Chicago", "Seattle", "Miami", "Denver", "Houston",
               "Portland", "Las Vegas" >>
Times == << "10:00", "10:05", "10:10", "10:15", "10:20", "10:25", "10:30",
            "10:35" >>

\* One departure as generate_train_departures builds it (the fields the
\* announcement uses); n tells the records of a list apart.
Departure(n, delay) ==
    [ train_number   |-> TrainNumbers[n],
      operator       |-> "Amtrak",
      destination    |-> Stations[n],
      origin         |-> "Origin",
      scheduled_time |-> Times[n],
      platform       |-> n,
      delay_minutes  |-> delay,
      is_delayed     |-> delay > 0 ]

\* A list of count departures, the first of them delayed.
generate_train_departures(count) ==
    [ n \in 1..count |-> Departure(n, IF n = 1 THEN 5 ELSE 0) ]

\* list[:k]
Prefix(s, k) == SubSeq(s, 1, IF k < Len(s) THEN k ELSE Len(s))

\* ----------------------------------------------------------- histories

Idx(self) == IF self = "worker" THEN i ELSE 0

Logged(op, self) == Append(log, << op, Idx(self) >>)

\* generate_announcement's locals and what the call did so far.
NewGen == [ full_text |-> << >>,     \* full_text
            pulled    |-> 0,         \* chunks pulled from the stream
            preset    |-> FALSE,     \* the token was set when the call began
            loaded    |-> FALSE,     \* the call ran the Llama constructor
            created   |-> FALSE,     \* the call requested a completion
            failed    |-> FALSE,     \* the backend was unavailable or raised
            observed  |-> FALSE,     \* a stop check of the call returned true
            sinceSet  |-> 0 ]        \* chunks pulled since the token was set

\* ------------------------------------------------------------ shorthands

Goto(self, label) == pc' = [pc EXCEPT ![self] = label]

Invoked(op, j) == Contains(log, << op, j >>)

\* norm and audio while no text is being normalized and no audio made.
NoNorm == [given |-> << >>, text |-> << >>, raised |-> FALSE]
NoAudio == [ synth  |-> [samples |-> << >>, zeros |-> 0],
             np     |-> [samples |-> << >>, zeros |-> 0],
             played |-> [samples |-> << >>, zeros |-> 0],
             handed |-> FALSE ]

\* dep while generate_train_departures has not been called.
NoDep == [ count |-> 0, base |-> 0, departures |-> << >>, made |-> << >>,
           texts |-> << >> ]

\* ------------------------------------------------------------------ Init

\* RailwayAnnouncerApp.__init__ (main.py:19-37): no data, no run, the token
\* clear, Speak and Refresh enabled, Stop disabled (main.py:82-88), and the
\* initialisation thread started.
Init ==
    /\ pc = [t \in Threads |-> IF t = "init" THEN "tts_new" ELSE "idle"]
    /\ trains = << >>
    /\ is_speaking = FALSE
    /\ should_stop = FALSE
    /\ speak_btn = TRUE
    /\ refresh_btn = TRUE
    /\ stop_btn = FALSE
    /\ after = {}
    /\ status = "progress"
    /\ announcement = << >>
    /\ tts_engine = FALSE
    /\ llm_generator = FALSE
    /\ model = FALSE
    /\ playback_active = FALSE
    /\ llm = FALSE
    /\ sd = [state |-> "idle", idx |-> 0]
    /\ batch = << >>
    /\ i = 0
    /\ text = << >>
    /\ gen = NewGen
    /\ log = << >>
    /\ stopAt = NotStopped
    /\ stopHit = FALSE
    /\ report = "none"
    /\ idleStop = -1
    /\ norm = NoNorm
    /\ audio = NoAudio
    /\ refused = FALSE
    /\ dep = NoDep

\* ------------------------------------------------- SileroTTS (tts_engine.py)

\* Where a thread goes when speak() returns.
SpeakReturn(self) == IF self = "worker" THEN "check3" ELSE "idle"

\* A speak() that returns as soon as the output has started.
NeverBlocking(self) == FALSE

\* speak(text, blocking): the worker speaks blocking (main.py:363); of the
\* two callers of the component taken on its own, c2 does not.
Blocking(self) == self # "c2"

\* Where a thread goes when load_model() returns ok: the initialisation
\* thread ignores the result (main.py:255), speak() synthesizes or gives up
\* (line 107).
AfterTtsLoad(self, ok) ==
    IF self = "init" THEN "llm_new"
    ELSE IF ok THEN "s_norm" ELSE "s_nomodel"

\* What the package load of lines 67-69 leaves in self.model.
TtsLoaded(ok) == IF ok THEN TRUE ELSE model

\* load_model, lines 62-75, entered with self.model found None: the download
\* fails, or the package load runs and sets self.model, or it raises.
TtsLoadExec(self) ==
    /\ pc[self] = "lm_exec"
    /\ \E outcome \in {"download-failed", "loaded", "load-raised"} :
         /\ model' = TtsLoaded(outcome = "loaded")
         /\ status' = IF outcome = "loaded" THEN "progress" ELSE "diagnostic"
         /\ Goto(self, AfterTtsLoad(self, outcome = "loaded"))
    /\ UNCHANGED << trains, is_speaking, should_stop, speak_btn, refresh_btn,
                    stop_btn, after, announcement, tts_engine, llm_generator,
                    playback_active, llm, sd, batch, i, text, gen, log,
                    stopAt, stopHit, report, idleStop, norm, audio, refused,
                    dep >>

\* speak, line 107, and load_model, line 59: the model is there, or the load
\* begins.
SpeakEntry(self) ==
    /\ pc[self] = "s_entry"
    /\ IF model THEN Goto(self, "s_norm") ELSE Goto(self, "lm_exec")
    /\ UNCHANGED << trains, is_speaking, should_stop, speak_btn, refresh_btn,
                    stop_btn, after, status, announcement, tts_engine,
                    llm_generator, model, playback_active, llm, sd, batch, i,
                    text, gen, log, stopAt, stopHit, report, idleStop, norm,
                    audio, refused, dep >>

\* speak, lines 108-109: no model, nothing is played.
SpeakNoModel(self) ==
    /\ pc[self] = "s_nomodel"
    /\ status' = "diagnostic"
    /\ Goto(self, SpeakReturn(self))
    /\ UNCHANGED << trains, is_speaking, should_stop, speak_btn, refresh_btn,
                    stop_btn, after, announcement, tts_engine, llm_generator,
                    model, playback_active, llm, sd, batch, i, text, gen, log,
                    stopAt, stopHit, report, idleStop, norm, audio, refused,
                    dep >>

\* speak, lines 113-116: the text is normalized and apply_tts is entered.
SynthBegin(self) ==
    /\ pc[self] = "s_norm"
    /\ status' = "progress"
    /\ log' = Append(Logged("normalize", self), << "synthesize", Idx(self) >>)
    /\ Goto(self, "s_synth")
    /\ UNCHANGED << trains, is_speaking, should_stop, speak_btn, refresh_btn,
                    stop_btn, after, announcement, tts_engine, llm_generator,
                    model, playback_active, llm, sd, batch, i, text, gen,
                    stopAt, stopHit, report, idleStop, norm, audio, refused,
                    dep >>

\* speak() without its except clause: the error reaches the caller.
RaisesToCaller(self) == IF self = "worker" THEN "except" ELSE "idle"

\* Where speak() goes when its try block raises (lines 134-136).
OnTtsError(self) == SpeakReturn(self)

\* speak, lines 116-125: apply_tts returns the samples, to which the silence
\* is appended, or it raises.
SynthEnd(self) ==
    /\ pc[self] = "s_synth"
    /\ \/ /\ Goto(self, "s_active")
          /\ UNCHANGED << status, playback_active >>
       \/ /\ status' = "diagnostic"
          /\ playback_active' = FALSE
          /\ Goto(self, OnTtsError(self))
    /\ UNCHANGED << trains, is_speaking, should_stop, speak_btn, refresh_btn,
                    stop_btn, after, announcement, tts_engine, llm_generator,
                    model, llm, sd, batch, i, text, gen, log, stopAt, stopHit,
                    report, idleStop, norm, audio, refused, dep >>

\* speak, line 127.
MarkActive(self) ==
    /\ pc[self] = "s_active"
    /\ playback_active' = TRUE
    /\ Goto(self, "s_play")
    /\ UNCHANGED << trains, is_speaking, should_stop, speak_btn, refresh_btn,
                    stop_btn, after, status, announcement, tts_engine,
                    llm_generator, model, llm, sd, batch, i, text, gen, log,
                    stopAt, stopHit, report, idleStop, norm, audio, refused,
                    dep >>

\* speak, lines 128-130: sd.play starts the output (and speak returns at
\* once when the call is not blocking), or it raises.
SdPlay(self) ==
    /\ pc[self] = "s_play"
    /\ \/ /\ sd' = [state |-> "playing", idx |-> Idx(self)]
          /\ log' = Logged("play", self)
          /\ Goto(self, IF Blocking(self) THEN "s_wait" ELSE SpeakReturn(self))
          /\ UNCHANGED << status, playback_active >>
       \/ /\ status' = "diagnostic"
          /\ playback_active' = FALSE
          /\ Goto(self, OnTtsError(self))
          /\ UNCHANGED << sd, log >>
    /\ UNCHANGED << trains, is_speaking, should_stop, speak_btn, refresh_btn,
                    stop_btn, after, announcement, tts_engine, llm_generator,
                    model, llm, batch, i, text, gen, stopAt, stopHit, report,
                    idleStop, norm, audio, refused, dep >>

\* speak, lines 131-132: sd.wait() returns once the output is no longer
\* playing, and the flag is cleared.
SdWait(self) ==
    /\ pc[self] = "s_wait"
    /\ sd.state # "playing"
    /\ playback_active' = FALSE
    /\ Goto(self, SpeakReturn(self))
    /\ UNCHANGED << trains, is_speaking, should_stop, speak_btn, refresh_btn,
                    stop_btn, after, status, announcement, tts_engine,
                    llm_generator, model, llm, sd, batch, i, text, gen, log,
                    stopAt, stopHit, report, idleStop, norm, audio, refused,
                    dep >>

\* The output device plays the waveform to its end.
DeviceFinish ==
    /\ sd.state = "playing"
    /\ sd' = [state |-> "idle", idx |-> 0]
    /\ log' = Append(log, << "played", sd.idx >>)
    /\ UNCHANGED << pc, trains, is_speaking, should_stop, speak_btn,
                    refresh_btn, stop_btn, after, status, announcement,
                    tts_engine, llm_generator, model, playback_active, llm,
                    batch, i, text, gen, stopAt, stopHit, report, idleStop,
                    norm, audio, refused, dep >>

\* A speak() call of the worker has marked playback active and its waveform
\* has not played to its end.
SpeakUnfinished ==
    /\ pc["worker"] \in {"s_play", "s_wait"}
    /\ ~Invoked("played", i)

\* The calls of speak() made so far.
Calls == Len(SelectSeq(log, LAMBDA e : e[1] = "speak"))

\* No call of speak() is in progress, the flag is clear and the device idle.
PlayerIdle ==
    /\ \A c \in Callers : pc[c] = "idle"
    /\ ~playback_active
    /\ sd.state = "idle"

\* A stop() that does not look at the flag.
StopsAlways(engine, active) == engine

\* _on_stop_click, line 321, and stop, line 139: there is a synthesizer and
\* its flag is set.
StopNeeded(engine, active) == engine /\ active

\* _on_stop_click, line 321, and stop, line 139.
StopCheck(self) ==
    /\ pc[self] = "stop_chk"
    /\ IF StopNeeded(tts_engine, playback_active)
       THEN Goto(self, "stop_sd")
       ELSE Goto(self, "idle")
    /\ idleStop' = IF self = Stopper /\ PlayerIdle THEN Calls ELSE idleStop
    /\ UNCHANGED << trains, is_speaking, should_stop, speak_btn, refresh_btn,
                    stop_btn, after, status, announcement, tts_engine,
                    llm_generator, model, playback_active, llm, sd, batch, i,
                    text, gen, log, stopAt, stopHit, report, norm, audio,
                    refused, dep >>

\* stop, line 140: sd.stop() halts whatever is playing.
StopSd(self) ==
    /\ pc[self] = "stop_sd"
    /\ sd' = [state |-> "idle", idx |-> 0]
    /\ stopHit' = (stopHit \/ SpeakUnfinished)
    /\ Goto(self, "stop_clr")
    /\ UNCHANGED << trains, is_speaking, should_stop, speak_btn, refresh_btn,
                    stop_btn, after, status, announcement, tts_engine,
                    llm_generator, model, playback_active, llm, batch, i,
                    text, gen, log, stopAt, report, idleStop, norm, audio,
                    refused, dep >>

\* stop, line 141.
StopClear(self) ==
    /\ pc[self] = "stop_clr"
    /\ playback_active' = FALSE
    /\ Goto(self, "idle")
    /\ UNCHANGED << trains, is_speaking, should_stop, speak_btn, refresh_btn,
                    stop_btn, after, status, announcement, tts_engine,
                    llm_generator, model, llm, sd, batch, i, text, gen, log,
                    stopAt, stopHit, report, idleStop, norm, audio, refused,
                    dep >>

\* ------------------------------- AnnouncementGenerator (llm_generator.py)

\* Where a thread goes when the generator's load_model() returns ok: the
\* initialisation thread ignores the result (main.py:264),
\* generate_announcement goes on or returns "System unavailable.".
AfterLlmLoad(self, ok) ==
    IF self = "init" THEN "ready"
    ELSE IF ok THEN "g_create" ELSE "g_unavailable"

\* load_model, line 85, called by the initialisation thread.
LlmLoadCheck(self) ==
    /\ pc[self] = "ll_check"
    /\ IF llm
       THEN Goto(self, AfterLlmLoad(self, TRUE))
       ELSE Goto(self, "ll_exec")
    /\ UNCHANGED << trains, is_speaking, should_stop, speak_btn, refresh_btn,
                    stop_btn, after, status, announcement, tts_engine,
                    llm_generator, model, playback_active, llm, sd, batch, i,
                    text, gen, log, stopAt, stopHit, report, idleStop, norm,
                    audio, refused, dep >>

\* load_model, lines 86-103, entered with self.llm found None: the download
\* fails, or Llama(...) is built and kept in self.llm, or it raises.
LlmLoadExec(self) ==
    /\ pc[self] = "ll_exec"
    /\ \E outcome \in {"download-failed", "loaded", "load-raised"} :
         /\ llm' = IF outcome = "loaded" THEN TRUE ELSE llm
         /\ gen' = IF self = "worker" /\ outcome # "download-failed"
                   THEN [gen EXCEPT !.loaded = TRUE] ELSE gen
         /\ status' = IF outcome = "loaded" THEN "progress" ELSE "diagnostic"
         /\ Goto(self, AfterLlmLoad(self, outcome = "loaded"))
    /\ UNCHANGED << trains, is_speaking, should_stop, speak_btn, refresh_btn,
                    stop_btn, after, announcement, tts_engine, llm_generator,
                    model, playback_active, sd, batch, i, text, log, stopAt,
                    stopHit, report, idleStop, norm, audio, refused, dep >>

\* What generate_announcement returns when the model cannot be loaded
\* (line 111).
UnavailableResult(train) == SystemUnavailable

\* generate_announcement, line 111.
GenUnavailable(self) ==
    /\ pc[self] = "g_unavailable"
    /\ text' = UnavailableResult(batch[i])
    /\ gen' = [gen EXCEPT !.failed = TRUE]
    /\ Goto(self, "check2")
    /\ UNCHANGED << trains, is_speaking, should_stop, speak_btn, refresh_btn,
                    stop_btn, after, status, announcement, tts_engine,
                    llm_generator, model, playback_active, llm, sd, batch, i,
                    log, stopAt, stopHit, report, idleStop, norm, audio,
                    refused, dep >>

\* The fields generate_announcement reads from the record (lines 115-123).
RequiredFields ==
    { "train_number", "operator", "destination", "origin", "scheduled_time",
      "platform", "delay_minutes" }

\* What generate_announcement returns when the completion or its stream
\* raises (lines 158-160).
ErrorResult(train) == FallbackSentence(train)

\* generate_announcement, lines 114-141: the prompt is built from the record
\* (a missing field raises KeyError to the caller) and the streaming
\* completion is requested, which may raise.
GenCreate(self) ==
    /\ pc[self] = "g_create"
    /\ IF ~(RequiredFields \subseteq DOMAIN batch[i])
       THEN /\ Goto(self, "except")
            /\ UNCHANGED << status, gen, text >>
       ELSE \/ /\ status' = "progress"
               /\ gen' = [gen EXCEPT !.created = TRUE]
               /\ Goto(self, "g_pull")
               /\ UNCHANGED text
            \/ /\ status' = "diagnostic"
               /\ gen' = [gen EXCEPT !.created = TRUE, !.failed = TRUE]
               /\ text' = ErrorResult(batch[i])
               /\ Goto(self, "check2")
    /\ UNCHANGED << trains, is_speaking, should_stop, speak_btn, refresh_btn,
                    stop_btn, after, announcement, tts_engine, llm_generator,
                    model, playback_active, llm, sd, batch, i, log, stopAt,
                    stopHit, report, idleStop, norm, audio, refused, dep >>

\* generate_announcement, line 144: the for statement pulls the next chunk
\* of the stream, which yields one, ends (line 156) or raises (lines
\* 158-160).
GenPull(self) ==
    /\ pc[self] = "g_pull"
    /\ \/ /\ gen.pulled < MaxChunks
          /\ gen' = [gen EXCEPT !.pulled = @ + 1,
                                !.sinceSet = IF should_stop THEN @ + 1 ELSE @]
          /\ Goto(self, "g_check")
          /\ UNCHANGED << text, status >>
       \/ /\ text' = Strip(gen.full_text)
          /\ Goto(self, "check2")
          /\ UNCHANGED << gen, status >>
       \/ /\ status' = "diagnostic"
          /\ gen' = [gen EXCEPT !.failed = TRUE]
          /\ text' = ErrorResult(batch[i])
          /\ Goto(self, "check2")
    /\ UNCHANGED << trains, is_speaking, should_stop, speak_btn, refresh_btn,
                    stop_btn, after, announcement, tts_engine, llm_generator,
                    model, playback_active, llm, sd, batch, i, log, stopAt,
                    stopHit, report, idleStop, norm, audio, refused, dep >>

\* A stop check that returns what was generated so far.
ReturnsPartial(full_text) == Strip(full_text)

\* What generate_announcement returns when its stop check returns true with
\* full_text accumulated (line 148).
StoppedResult(full_text) == InterruptedText

\* A stop check made on every second chunk only.
ChecksEverySecond(pulled) == pulled % 2 = 0

\* Whether the stop check of line 146 is made on the chunk numbered pulled.
ChecksChunk(pulled) == TRUE

\* generate_announcement, lines 146-152: stop_check_callback() is asked, and
\* the call returns "[Interrupted]" or adds the content of the chunk, if it
\* has any, to full_text.
GenCheck(self) ==
    /\ pc[self] = "g_check"
    /\ IF ChecksChunk(gen.pulled) /\ should_stop
       THEN /\ status' = "progress"
            /\ gen' = [gen EXCEPT !.observed = TRUE]
            /\ text' = StoppedResult(gen.full_text)
            /\ Goto(self, "check2")
       ELSE /\ \E c \in Chunks :
                 gen' = [gen EXCEPT !.full_text =
                            IF c = NoContent THEN @ ELSE Append(@, c)]
            /\ Goto(self, "g_pull")
            /\ UNCHANGED << status, text >>
    /\ UNCHANGED << trains, is_speaking, should_stop, speak_btn, refresh_btn,
                    stop_btn, after, announcement, tts_engine, llm_generator,
                    model, playback_active, llm, sd, batch, i, log, stopAt,
                    stopHit, report, idleStop, norm, audio, refused, dep >>

\* ------------------------------------------- speak_thread (main.py:341-378)

\* Line 344: the batch is the first three departures.
WorkerStart ==
    /\ pc["worker"] = "start"
    /\ batch' = Prefix(trains, BatchSize)
    /\ Goto("worker", "loop")
    /\ UNCHANGED << trains, is_speaking, should_stop, speak_btn, refresh_btn,
                    stop_btn, after, status, announcement, tts_engine,
                    llm_generator, model, playback_active, llm, sd, i, text,
                    gen, log, stopAt, stopHit, report, idleStop, norm, audio,
                    refused, dep >>

\* A loop without the check of line 347.
NeverBreaksAtTop(stop) == FALSE

\* Whether the for loop is left at the check of line 347.
BreaksAtTop(stop) == stop

\* Lines 346-349, reached from line 344 or from the sleep of line 367: the
\* loop ends after the last record; otherwise the next record is taken and
\* the token is checked.
Loop ==
    /\ pc["worker"] = "loop"
    /\ IF i = Len(batch)
       THEN /\ Goto("worker", "end")
            /\ UNCHANGED << i, status >>
       ELSE /\ i' = i + 1
            /\ IF BreaksAtTop(should_stop)
               THEN /\ Goto("worker", "end")
                    /\ UNCHANGED status
               ELSE /\ status' = "progress"
                    /\ Goto("worker", "g_call")
    /\ UNCHANGED << trains, is_speaking, should_stop, speak_btn, refresh_btn,
                    stop_btn, after, announcement, tts_engine, llm_generator,
                    model, playback_active, llm, sd, batch, text, gen, log,
                    stopAt, stopHit, report, idleStop, norm, audio, refused,
                    dep >>

\* Line 352 and generate_announcement, lines 110 and 85: the call is made on
\* self.llm_generator, which is None (AttributeError) until the
\* initialisation thread has created it; the model is there, or its load
\* begins.
GenCall ==
    /\ pc["worker"] = "g_call"
    /\ IF llm_generator
       THEN /\ gen' = [NewGen EXCEPT !.preset = should_stop]
            /\ log' = Logged("generate", "worker")
            /\ Goto("worker", IF llm THEN "g_create" ELSE "ll_exec")
       ELSE /\ Goto("worker", "except")
            /\ UNCHANGED << gen, log >>
    /\ UNCHANGED << trains, is_speaking, should_stop, speak_btn, refresh_btn,
                    stop_btn, after, status, announcement, tts_engine,
                    llm_generator, model, playback_active, llm, sd, batch, i,
                    text, stopAt, stopHit, report, idleStop, norm, audio,
                    refused, dep >>

\* A worker that speaks whatever the token says after generation.
SpeaksAnyway(stop) == FALSE

\* Line 357: if self.should_stop: break.
BreaksAfterGenerate(stop) == stop

\* Lines 357-363: the token is checked; the text is shown and speak() is
\* called on self.tts_engine.
Check2 ==
    /\ pc["worker"] = "check2"
    /\ IF BreaksAfterGenerate(should_stop)
       THEN /\ Goto("worker", "end")
            /\ UNCHANGED << announcement, status, log, stopHit >>
       ELSE /\ announcement' = text
            /\ status' = "progress"
            /\ IF tts_engine
               THEN /\ log' = Logged("speak", "worker")
                    /\ stopHit' = FALSE
                    /\ Goto("worker", "s_entry")
               ELSE /\ Goto("worker", "except")
                    /\ UNCHANGED << log, stopHit >>
    /\ gen' = NewGen
    /\ text' = << >>
    /\ UNCHANGED << trains, is_speaking, should_stop, speak_btn, refresh_btn,
                    stop_btn, after, tts_engine, llm_generator, model,
                    playback_active, llm, sd, batch, i, stopAt, report,
                    idleStop, norm, audio, refused, dep >>

\* Lines 365-367: the token is checked; the sleep that follows touches
\* nothing.
Check3 ==
    /\ pc["worker"] = "check3"
    /\ IF should_stop THEN Goto("worker", "end") ELSE Goto("worker", "loop")
    /\ UNCHANGED << trains, is_speaking, should_stop, speak_btn, refresh_btn,
                    stop_btn, after, status, announcement, tts_engine,
                    llm_generator, model, playback_active, llm, sd, batch, i,
                    text, gen, log, stopAt, stopHit, report, idleStop, norm,
                    audio, refused, dep >>

\* The values interpolated into the message of a report: lines 370 and 372
\* are constant strings, line 375 formats the exception.
ReportArgs(kind) == IF kind = "error" THEN {"exception"} ELSE {}

\* Lines 369-372: the report of the run.
FinalStatus(stop) == IF stop THEN "stopped" ELSE "completed"

End ==
    /\ pc["worker"] = "end"
    /\ status' = FinalStatus(should_stop)
    /\ report' = FinalStatus(should_stop)
    /\ Goto("worker", "finally")
    /\ UNCHANGED << trains, is_speaking, should_stop, speak_btn, refresh_btn,
                    stop_btn, after, announcement, tts_engine, llm_generator,
                    model, playback_active, llm, sd, batch, i, text, gen, log,
                    stopAt, stopHit, idleStop, norm, audio, refused, dep >>

\* Lines 374-375: an exception of the loop ends the run.
Except ==
    /\ pc["worker"] = "except"
    /\ status' = "error"
    /\ report' = "error"
    /\ Goto("worker", "finally")
    /\ UNCHANGED << trains, is_speaking, should_stop, speak_btn, refresh_btn,
                    stop_btn, after, announcement, tts_engine, llm_generator,
                    model, playback_active, llm, sd, batch, i, text, gen, log,
                    stopAt, stopHit, idleStop, norm, audio, refused, dep >>

\* A finally clause that clears the flag and queues nothing.
QueuesNothing(queue) == queue

\* Line 378: root.after(0, self._on_speaking_done).
ScheduleDone(queue) == queue \cup {"_on_speaking_done"}

\* Lines 377-378: the flag is cleared and _on_speaking_done queued; the
\* thread ends.
Finally ==
    /\ pc["worker"] = "finally"
    /\ is_speaking' = FALSE
    /\ after' = ScheduleDone(after)
    /\ Goto("worker", "idle")
    /\ UNCHANGED << trains, should_stop, speak_btn, refresh_btn, stop_btn,
                    status, announcement, tts_engine, llm_generator, model,
                    playback_active, llm, sd, batch, i, text, gen, log,
                    stopAt, stopHit, report, idleStop, norm, audio, refused,
                    dep >>

\* --------------------------------------------- init_thread (main.py:251-270)

\* Lines 253-255 and load_model, line 59: the synthesizer is created, with
\* no model, and its load begins.
InitTts ==
    /\ pc["init"] = "tts_new"
    /\ tts_engine' = TRUE
    /\ status' = "progress"
    /\ Goto("init", "lm_exec")
    /\ UNCHANGED << trains, is_speaking, should_stop, speak_btn, refresh_btn,
                    stop_btn, after, announcement, llm_generator, model,
                    playback_active, llm, sd, batch, i, text, gen, log,
                    stopAt, stopHit, report, idleStop, norm, audio, refused,
                    dep >>

\* Lines 257-264: the generator is created and its load_model called.
InitLlm ==
    /\ pc["init"] = "llm_new"
    /\ llm_generator' = TRUE
    /\ status' = "progress"
    /\ Goto("init", "ll_check")
    /\ UNCHANGED << trains, is_speaking, should_stop, speak_btn, refresh_btn,
                    stop_btn, after, announcement, tts_engine, model,
                    playback_active, llm, sd, batch, i, text, gen, log,
                    stopAt, stopHit, report, idleStop, norm, audio, refused,
                    dep >>

\* Line 266: root.after(0, self._on_models_ready); the thread ends.
InitReady ==
    /\ pc["init"] = "ready"
    /\ after' = after \cup {"_on_models_ready"}
    /\ Goto("init", "idle")
    /\ UNCHANGED << trains, is_speaking, should_stop, speak_btn, refresh_btn,
                    stop_btn, status, announcement, tts_engine, llm_generator,
                    model, playback_active, llm, sd, batch, i, text, gen, log,
                    stopAt, stopHit, report, idleStop, norm, audio, refused,
                    dep >>

\* ------------------------------------------- the controller (Tk main loop)

\* The main loop runs one handler at a time.
MainIdle == pc["main"] = "idle"

\* _on_models_ready (lines 275-279).
OnModelsReady ==
    /\ MainIdle
    /\ "_on_models_ready" \in after
    /\ after' = after \ {"_on_models_ready"}
    /\ status' = "progress"
    /\ announcement' = << "System ready. Waiting for data..." >>
    /\ UNCHANGED << pc, trains, is_speaking, should_stop, speak_btn,
                    refresh_btn, stop_btn, tts_engine, llm_generator, model,
                    playback_active, llm, sd, batch, i, text, gen, log,
                    stopAt, stopHit, report, idleStop, norm, audio, refused,
                    dep >>

\* _on_refresh_click (lines 281-315), on a click of the enabled button.
OnRefreshClick ==
    /\ MainIdle
    /\ refresh_btn
    /\ trains' = generate_train_departures(NumDepartures)
    /\ status' = "progress"
    /\ UNCHANGED << pc, is_speaking, should_stop, speak_btn, refresh_btn,
                    stop_btn, after, announcement, tts_engine, llm_generator,
                    model, playback_active, llm, sd, batch, i, text, gen, log,
                    stopAt, stopHit, report, idleStop, norm, audio, refused,
                    dep >>

\* A handler that does not look at is_speaking.
StartsAnyway(loaded, speaking) == loaded

\* Whether _on_speak_click starts a run (lines 329-333).
StartsRun(loaded, speaking) == loaded /\ ~speaking

\* _on_speak_click (lines 328-381): without data a warning is shown, and
\* with a run in progress the handler returns; else the token is reset and
\* the worker started, its locals fresh.
on_speak_click ==
    /\ MainIdle
    /\ IF StartsRun(trains # << >>, is_speaking)
       THEN /\ is_speaking' = TRUE
            /\ should_stop' = FALSE
            /\ speak_btn' = FALSE
            /\ refresh_btn' = FALSE
            /\ stop_btn' = TRUE
            /\ Goto("worker", "start")
            /\ batch' = << >>
            /\ i' = 0
            /\ text' = << >>
            /\ gen' = NewGen
            /\ log' = << >>
            /\ stopAt' = NotStopped
            /\ stopHit' = FALSE
            /\ report' = "none"
            /\ refused' = FALSE
            /\ UNCHANGED << trains, after, status, announcement, tts_engine,
                            llm_generator, model, playback_active, llm, sd,
                            idleStop, norm, audio, dep >>
       ELSE /\ refused' = (refused \/ (trains # << >> /\ is_speaking))
            /\ UNCHANGED << pc, trains, is_speaking, should_stop, speak_btn,
                            refresh_btn, stop_btn, after, status,
                            announcement, tts_engine, llm_generator, model,
                            playback_active, llm, sd, batch, i, text, gen,
                            log, stopAt, stopHit, report, idleStop, norm,
                            audio, dep >>

\* A click of the Speak button, which Tk delivers while the button is
\* enabled.
OnSpeakClick == speak_btn /\ on_speak_click

\* The worker is in its loop (lines 344-367).
InLoop == pc["worker"] \notin {"idle", "end", "except", "finally"}

\* A stop handler that flips the token.
FlipToken(stop) == ~stop

\* Line 319: self.should_stop = True.
SetToken(stop) == TRUE

\* _on_stop_click (lines 317-320), on a click of the enabled button: the
\* token is set; stop() follows.
OnStopClick ==
    /\ MainIdle
    /\ stop_btn
    /\ should_stop' = SetToken(should_stop)
    /\ status' = "stopping"
    /\ stopAt' = IF stopAt = NotStopped /\ InLoop
                 THEN [i |-> i, synth |-> pc["worker"] = "s_synth"]
                 ELSE stopAt
    /\ Goto("main", "stop_chk")
    /\ UNCHANGED << trains, is_speaking, speak_btn, refresh_btn, stop_btn,
                    after, announcement, tts_engine, llm_generator, model,
                    playback_active, llm, sd, batch, i, text, gen, log,
                    stopHit, report, idleStop, norm, audio, refused, dep >>

\* _on_speaking_done (lines 383-386).
OnSpeakingDone ==
    /\ MainIdle
    /\ "_on_speaking_done" \in after
    /\ after' = after \ {"_on_speaking_done"}
    /\ speak_btn' = TRUE
    /\ refresh_btn' = TRUE
    /\ stop_btn' = FALSE
    /\ UNCHANGED << pc, trains, is_speaking, should_stop, status,
                    announcement, tts_engine, llm_generator, model,
                    playback_active, llm, sd, batch, i, text, gen, log,
                    stopAt, stopHit, report, idleStop, norm, audio, refused,
                    dep >>

\* ------------------------------------------------------ the application

Tts(self) ==
    \/ TtsLoadExec(self)
    \/ SpeakEntry(self)
    \/ SpeakNoModel(self)
    \/ SynthBegin(self)
    \/ SynthEnd(self)
    \/ MarkActive(self)
    \/ SdPlay(self)
    \/ SdWait(self)

Stop(self) == StopCheck(self) \/ StopSd(self) \/ StopClear(self)

Llm(self) ==
    \/ LlmLoadCheck(self)
    \/ LlmLoadExec(self)
    \/ GenUnavailable(self)
    \/ GenCreate(self)
    \/ GenPull(self)
    \/ GenCheck(self)

Worker ==
    \/ WorkerStart \/ Loop \/ GenCall \/ Check2 \/ Check3 \/ End \/ Except
    \/ Finally

InitThread == InitTts \/ InitLlm \/ InitReady

Main ==
    \/ OnModelsReady \/ OnRefreshClick \/ OnSpeakClick \/ OnStopClick
    \/ OnSpeakingDone

Next ==
    \/ Main
    \/ Stop("main")
    \/ InitThread
    \/ Worker
    \/ \E self \in {"init", "worker"} : Tts(self) \/ Llm(self)
    \/ DeviceFinish

Spec == Init /\ [][Next]_vars

\* The steps of speak_thread, with the calls it makes into the synthesizer
\* and the generator.
WorkerStep == Worker \/ Tts("worker") \/ Llm("worker")

\* The application when every thread that can run does run: speak_thread is
\* an operating-system thread of its own (line 380), and the calls it blocks
\* in return, the output device finishing what it plays.
FairSpec == Spec /\ WF_vars(WorkerStep) /\ WF_vars(DeviceFinish)

\* ------------------------------------- the synthesizer component on its own

\* A SileroTTS just constructed (tts_engine.py:20-33), with no model, and
\* two callers and a stopper that have called nothing yet.
InitSynth ==
    /\ pc = [t \in Threads |-> "idle"]
    /\ trains = << >>
    /\ is_speaking = FALSE
    /\ should_stop = FALSE
    /\ speak_btn = FALSE
    /\ refresh_btn = FALSE
    /\ stop_btn = FALSE
    /\ after = {}
    /\ status = "progress"
    /\ announcement = << >>
    /\ tts_engine = TRUE
    /\ llm_generator = FALSE
    /\ model = FALSE
    /\ playback_active = FALSE
    /\ llm = FALSE
    /\ sd = [state |-> "idle", idx |-> 0]
    /\ batch = << >>
    /\ i = 0
    /\ text = << >>
    /\ gen = NewGen
    /\ log = << >>
    /\ stopAt = NotStopped
    /\ stopHit = FALSE
    /\ report = "none"
    /\ idleStop = -1
    /\ norm = NoNorm
    /\ audio = NoAudio
    /\ refused = FALSE
    /\ dep = NoDep

\* A caller calls speak(text, blocking).
CallSpeak(self) ==
    /\ pc[self] = "idle"
    /\ Calls < MaxCalls
    /\ log' = Logged("speak", self)
    /\ Goto(self, "s_entry")
    /\ UNCHANGED << trains, is_speaking, should_stop, speak_btn, refresh_btn,
                    stop_btn, after, status, announcement, tts_engine,
                    llm_generator, model, playback_active, llm, sd, batch, i,
                    text, gen, stopAt, stopHit, report, idleStop, norm, audio,
                    refused, dep >>

\* The stopper calls stop().
CallStop ==
    /\ pc[Stopper] = "idle"
    /\ Goto(Stopper, "stop_chk")
    /\ UNCHANGED << trains, is_speaking, should_stop, speak_btn, refresh_btn,
                    stop_btn, after, status, announcement, tts_engine,
                    llm_generator, model, playback_active, llm, sd, batch, i,
                    text, gen, log, stopAt, stopHit, report, idleStop, norm,
                    audio, refused, dep >>

NextSynth ==
    \/ \E self \in Callers : CallSpeak(self) \/ Tts(self)
    \/ CallStop
    \/ Stop(Stopper)
    \/ DeviceFinish

SpecSynth == InitSynth /\ [][NextSynth]_vars

\* ------------------------------------------ the start handler on its own

\* The application once start-up is over: init_thread has ended, each of
\* its two loads having succeeded or failed, _on_models_ready has run and
\* the departures have been refreshed.
InitRequests ==
    /\ pc = [t \in Threads |-> "idle"]
    /\ trains = generate_train_departures(NumDepartures)
    /\ is_speaking = FALSE
    /\ should_stop = FALSE
    /\ speak_btn = TRUE
    /\ refresh_btn = TRUE
    /\ stop_btn = FALSE
    /\ after = {}
    /\ status = "progress"
    /\ announcement = << >>
    /\ tts_engine = TRUE
    /\ llm_generator = TRUE
    /\ model \in BOOLEAN
    /\ playback_active = FALSE
    /\ llm \in BOOLEAN
    /\ sd = [state |-> "idle", idx |-> 0]
    /\ batch = << >>
    /\ i = 0
    /\ text = << >>
    /\ gen = NewGen
    /\ log = << >>
    /\ stopAt = NotStopped
    /\ stopHit = FALSE
    /\ report = "none"
    /\ idleStop = -1
    /\ norm = NoNorm
    /\ audio = NoAudio
    /\ refused = FALSE
    /\ dep = NoDep

\* _on_speak_click called whatever the state of its button: the guard of
\* line 333 alone decides. (Line 378 commutes with the handler, so the
\* worker's finally clause stays one step.)
SpeakRequest == on_speak_click

NextRequests ==
    \/ SpeakRequest
    \/ OnStopClick \/ OnSpeakingDone
    \/ Stop("main")
    \/ WorkerStart \/ Loop \/ GenCall \/ Check2 \/ Check3 \/ End \/ Finally
    \/ Tts("worker")
    \/ LlmLoadExec("worker") \/ GenUnavailable("worker")
    \/ GenCreate("worker") \/ GenPull("worker") \/ GenCheck("worker")
    \/ DeviceFinish

SpecRequests == InitRequests /\ [][NextRequests]_vars

\* ------------------------------------------- the generator on its own

\* A record without the field f.
Without(record, f) == [ g \in DOMAIN record \ {f} |-> record[g] ]

\* The dictionaries generate_announcement is called with: a departure, or
\* one that lacks a field the prompt is built from.
Records ==
    {Departure(1, 5)} \cup { Without(Departure(1, 5), f) : f \in RequiredFields }

\* A caller at the call of generate_announcement(record, stop_check), the
\* model loaded or not and the token set or not.
InitGenerate ==
    /\ pc = [t \in Threads |-> IF t = "worker" THEN "g_call" ELSE "idle"]
    /\ trains = << >>
    /\ is_speaking = TRUE
    /\ should_stop \in BOOLEAN
    /\ speak_btn = FALSE
    /\ refresh_btn = FALSE
    /\ stop_btn = FALSE
    /\ after = {}
    /\ status = "progress"
    /\ announcement = << >>
    /\ tts_engine = TRUE
    /\ llm_generator = TRUE
    /\ model = TRUE
    /\ playback_active = FALSE
    /\ llm \in BOOLEAN
    /\ sd = [state |-> "idle", idx |-> 0]
    /\ \E record \in Records : batch = << record >>
    /\ i = 1
    /\ text = << >>
    /\ gen = NewGen
    /\ log = << >>
    /\ stopAt = NotStopped
    /\ stopHit = FALSE
    /\ report = "none"
    /\ idleStop = -1
    /\ norm = NoNorm
    /\ audio = NoAudio
    /\ refused = FALSE
    /\ dep = NoDep

NextGenerate ==
    \/ GenCall
    \/ LlmLoadExec("worker") \/ GenUnavailable("worker")
    \/ GenCreate("worker") \/ GenPull("worker") \/ GenCheck("worker")

SpecGenerate == InitGenerate /\ [][NextGenerate]_vars

\* ------------------------------ _normalize_text (tts_engine.py:77-103)

\* A text is a sequence of characters; what num2words writes is kept as
\* whole words, which are letters only.
Alphabet == {"1", "2", ":", "-", "a"}
Texts == UNION { [1..n -> Alphabet] : n \in 0..MaxLen }

\* \d and int().
Digits == << "0", "1", "2", "3", "4", "5", "6", "7", "8", "9" >>
IsDigit(c) == \E d \in 1..Len(Digits) : Digits[d] = c
DigitValue(c) == (CHOOSE d \in 1..Len(Digits) : Digits[d] = c) - 1
RECURSIVE int(_)
int(ds) ==
    IF ds = << >> THEN 0
    ELSE int(SubSeq(ds, 1, Len(ds) - 1)) * 10 + DigitValue(ds[Len(ds)])

\* num2words(n) for the numbers it converts, below a thousand.
Ones == << "one", "two", "three", "four", "five", "six", "seven", "eight",
           "nine", "ten", "eleven", "twelve", "thirteen", "fourteen",
           "fifteen", "sixteen", "seventeen", "eighteen", "nineteen" >>
Tens == << "twenty", "thirty", "forty", "fifty", "sixty", "seventy",
           "eighty", "ninety" >>
RECURSIVE num2words(_)
num2words(n) ==
    IF n = 0 THEN << "zero" >>
    ELSE IF n < 20 THEN << Ones[n] >>
    ELSE IF n < 100 THEN
        IF n % 10 = 0 THEN << Tens[n \div 10 - 1] >>
        ELSE << Tens[n \div 10 - 1], "-", Ones[n % 10] >>
    ELSE << Ones[n \div 100], " ", "hundred" >>
         \o (IF n % 100 = 0 THEN << >>
             ELSE << " ", "and", " " >> \o num2words(n % 100))

\* num2words raises OverflowError.
Overflows(n) == n >= MaxValue

\* The character at p, or nothing past the ends.
At(s, p) == IF p \in 1..Len(s) THEN s[p] ELSE ""

\* Line 89, r"(\d{1,2}):(\d{2})" tried at p: the digits of the hour it
\* matches (two before one), 0 if it does not match there.
HourLen(s, p) ==
    IF /\ IsDigit(At(s, p)) /\ IsDigit(At(s, p + 1)) /\ At(s, p + 2) = ":"
       /\ IsDigit(At(s, p + 3)) /\ IsDigit(At(s, p + 4))
    THEN 2
    ELSE IF /\ IsDigit(At(s, p)) /\ At(s, p + 1) = ":"
            /\ IsDigit(At(s, p + 2)) /\ IsDigit(At(s, p + 3))
    THEN 1
    ELSE 0

\* Lines 85-87, replace_time for the match at p with an hour of hl digits.
replace_time(s, p, hl) ==
    num2words(int(SubSeq(s, p, p + hl - 1))) \o << " " >>
        \o num2words(int(SubSeq(s, p + hl + 1, p + hl + 2)))

\* Line 89, re.sub over the text from p on: the matches, left to right and
\* not overlapping, are replaced.
RECURSIVE SubTimes(_, _)
SubTimes(s, p) ==
    IF p > Len(s) THEN << >>
    ELSE LET hl == HourLen(s, p) IN
         IF hl > 0 THEN replace_time(s, p, hl) \o SubTimes(s, p + hl + 3)
         ELSE << s[p] >> \o SubTimes(s, p + 1)

\* Where the run of digits that begins at p ends (\d+ is greedy).
RECURSIVE RunEnd(_, _)
RunEnd(s, p) == IF IsDigit(At(s, p + 1)) THEN RunEnd(s, p + 1) ELSE p

\* Lines 92-93, replace_number for the match from p to e.
replace_number(s, p, e) == num2words(int(SubSeq(s, p, e)))

\* Line 95, re.sub(r"\d+", replace_number, text) from p on.
RECURSIVE SubNumbers(_, _)
SubNumbers(s, p) ==
    IF p > Len(s) THEN << >>
    ELSE IF IsDigit(s[p])
         THEN replace_number(s, p, RunEnd(s, p))
                  \o SubNumbers(s, RunEnd(s, p) + 1)
         ELSE << s[p] >> \o SubNumbers(s, p + 1)

\* replace_number raises for one of the numbers of the text.
NumberRaises(s) ==
    \E p \in 1..Len(s) :
        /\ IsDigit(s[p])
        /\ ~IsDigit(At(s, p - 1))
        /\ Overflows(int(SubSeq(s, p, RunEnd(s, p))))

\* str.replace(old, new).
Replace(s, old, new) ==
    [ k \in 1..Len(s) |-> IF s[k] = old THEN new ELSE s[k] ]

\* Line 89: text = re.sub(...), the times; hours and minutes have two
\* digits at most, which num2words converts.
NormTimes ==
    /\ pc["c1"] = "n_times"
    /\ norm' = [norm EXCEPT !.text = SubTimes(norm.text, 1)]
    /\ Goto("c1", "n_numbers")
    /\ UNCHANGED << trains, is_speaking, should_stop, speak_btn, refresh_btn,
                    stop_btn, after, status, announcement, tts_engine,
                    llm_generator, model, playback_active, llm, sd, batch, i,
                    text, gen, log, stopAt, stopHit, report, idleStop, audio,
                    refused, dep >>

\* Line 95: text = re.sub(...), the numbers; when replace_number raises,
\* the assignment does not happen and the except clause is entered.
NormNumbers ==
    /\ pc["c1"] = "n_numbers"
    /\ IF NumberRaises(norm.text)
       THEN /\ Goto("c1", "n_except")
            /\ UNCHANGED norm
       ELSE /\ norm' = [norm EXCEPT !.text = SubNumbers(norm.text, 1)]
            /\ Goto("c1", "n_hyphens")
    /\ UNCHANGED << trains, is_speaking, should_stop, speak_btn, refresh_btn,
                    stop_btn, after, status, announcement, tts_engine,
                    llm_generator, model, playback_active, llm, sd, batch, i,
                    text, gen, log, stopAt, stopHit, report, idleStop, audio,
                    refused, dep >>

\* Lines 98-100: the hyphens become blanks and the text is returned.
NormHyphens ==
    /\ pc["c1"] = "n_hyphens"
    /\ norm' = [norm EXCEPT !.text = Replace(norm.text, "-", " ")]
    /\ Goto("c1", "n_done")
    /\ UNCHANGED << trains, is_speaking, should_stop, speak_btn, refresh_btn,
                    stop_btn, after, status, announcement, tts_engine,
                    llm_generator, model, playback_active, llm, sd, batch, i,
                    text, gen, log, stopAt, stopHit, report, idleStop, audio,
                    refused, dep >>

\* Lines 101-103: the error is printed and the local text returned.
NormExcept ==
    /\ pc["c1"] = "n_except"
    /\ norm' = [norm EXCEPT !.raised = TRUE]
    /\ Goto("c1", "n_done")
    /\ UNCHANGED << trains, is_speaking, should_stop, speak_btn, refresh_btn,
                    stop_btn, after, status, announcement, tts_engine,
                    llm_generator, model, playback_active, llm, sd, batch, i,
                    text, gen, log, stopAt, stopHit, report, idleStop, audio,
                    refused, dep >>

\* _normalize_text(text) called with any text.
InitNormalize ==
    /\ pc = [t \in Threads |-> IF t = "c1" THEN "n_times" ELSE "idle"]
    /\ trains = << >>
    /\ is_speaking = FALSE
    /\ should_stop = FALSE
    /\ speak_btn = FALSE
    /\ refresh_btn = FALSE
    /\ stop_btn = FALSE
    /\ after = {}
    /\ status = "progress"
    /\ announcement = << >>
    /\ tts_engine = TRUE
    /\ llm_generator = FALSE
    /\ model = TRUE
    /\ playback_active = FALSE
    /\ llm = FALSE
    /\ sd = [state |-> "idle", idx |-> 0]
    /\ batch = << >>
    /\ i = 0
    /\ text = << >>
    /\ gen = NewGen
    /\ log = << >>
    /\ stopAt = NotStopped
    /\ stopHit = FALSE
    /\ report = "none"
    /\ idleStop = -1
    /\ \E s \in Texts : norm = [given |-> s, text |-> s, raised |-> FALSE]
    /\ audio = NoAudio
    /\ refused = FALSE
    /\ dep = NoDep

NextNormalize == NormTimes \/ NormNumbers \/ NormHyphens \/ NormExcept

SpecNormalize == InitNormalize /\ [][NextNormalize]_vars

\* --------------------------- the audio of speak (tts_engine.py:116-128)

\* A waveform is its samples followed by a run of zero samples, so that half
\* a second of silence need not be written out.
Samples == {-1, 0, 1}
Audios ==
    { [samples |-> a, zeros |-> 0] :
        a \in UNION { [1..n -> Samples] : n \in 0..MaxSamples } }
WaveLen(w) == Len(w.samples) + w.zeros

\* Silence that lasts no time.
NoSilence(rate) == 0

\* Line 123: int(self.sample_rate * 0.5), the float product truncated.
silence_samples(rate) == (rate * 5) \div 10

\* Line 124: np.zeros(n).
zeros(n) == [samples |-> << >>, zeros |-> n]

\* Line 125: np.concatenate([a, b]).
concatenate(a, b) ==
    IF b.samples = << >>
    THEN [samples |-> a.samples, zeros |-> a.zeros + b.zeros]
    ELSE [samples |-> a.samples \o [k \in 1..a.zeros |-> 0] \o b.samples,
          zeros   |-> b.zeros]

\* Lines 116-120: apply_tts returns the samples, or raises and nothing is
\* played (lines 134-136).
ApplyTts ==
    /\ pc["c1"] = "a_synth"
    /\ \/ \E a \in Audios :
            /\ audio' = [audio EXCEPT !.synth = a, !.np = a]
            /\ Goto("c1", "a_pad")
       \/ /\ Goto("c1", "a_done")
          /\ UNCHANGED audio
    /\ UNCHANGED << trains, is_speaking, should_stop, speak_btn, refresh_btn,
                    stop_btn, after, status, announcement, tts_engine,
                    llm_generator, model, playback_active, llm, sd, batch, i,
                    text, gen, log, stopAt, stopHit, report, idleStop, norm,
                    refused, dep >>

\* Lines 123-125: half a second of zeros is appended.
PadSilence ==
    /\ pc["c1"] = "a_pad"
    /\ audio' = [audio EXCEPT
                   !.np = concatenate(@, zeros(silence_samples(sample_rate)))]
    /\ Goto("c1", "a_play")
    /\ UNCHANGED << trains, is_speaking, should_stop, speak_btn, refresh_btn,
                    stop_btn, after, status, announcement, tts_engine,
                    llm_generator, model, playback_active, llm, sd, batch, i,
                    text, gen, log, stopAt, stopHit, report, idleStop, norm,
                    refused, dep >>

\* Lines 127-128: sd.play(audio_np, self.sample_rate).
PlayAudio ==
    /\ pc["c1"] = "a_play"
    /\ audio' = [audio EXCEPT !.played = audio.np, !.handed = TRUE]
    /\ playback_active' = TRUE
    /\ sd' = [state |-> "playing", idx |-> 0]
    /\ Goto("c1", "a_done")
    /\ UNCHANGED << trains, is_speaking, should_stop, speak_btn, refresh_btn,
                    stop_btn, after, status, announcement, tts_engine,
                    llm_generator, model, llm, batch, i, text, gen, log,
                    stopAt, stopHit, report, idleStop, norm, refused, dep >>

\* speak() past its normalization, the model loaded.
InitAudio ==
    /\ pc = [t \in Threads |-> IF t = "c1" THEN "a_synth" ELSE "idle"]
    /\ trains = << >>
    /\ is_speaking = FALSE
    /\ should_stop = FALSE
    /\ speak_btn = FALSE
    /\ refresh_btn = FALSE
    /\ stop_btn = FALSE
    /\ after = {}
    /\ status = "progress"
    /\ announcement = << >>
    /\ tts_engine = TRUE
    /\ llm_generator = FALSE
    /\ model = TRUE
    /\ playback_active = FALSE
    /\ llm = FALSE
    /\ sd = [state |-> "idle", idx |-> 0]
    /\ batch = << >>
    /\ i = 0
    /\ text = << >>
    /\ gen = NewGen
    /\ log = << >>
    /\ stopAt = NotStopped
    /\ stopHit = FALSE
    /\ report = "none"
    /\ idleStop = -1
    /\ norm = NoNorm
    /\ audio = NoAudio
    /\ refused = FALSE
    /\ dep = NoDep

NextAudio == ApplyTts \/ PadSilence \/ PlayAudio

SpecAudio == InitAudio /\ [][NextAudio]_vars

\* ------------------------------------------------- train_data.py:52-114

\* What random.randint(a, b) draws here: the ends of its range.
RandInt(a, b) == {a, b}

\* generate_delay (lines 52-62): on time, a small delay or a large one.
generate_delay == {0} \cup RandInt(1, 15) \cup RandInt(16, 60)

\* datetime.now() as minutes since midnight: mid-morning, and late enough
\* for a departure to fall after midnight.
BaseTimes == {10 * 60 + 3, 23 * 60 + 30}

\* generate_departure_time (lines 65-73), the date left out: base_time plus
\* the minutes ahead, its minute rounded down to a multiple of 5.
generate_departure_time(base_time, minutes_ahead) ==
    LET departure == (base_time + minutes_ahead) % (24 * 60)
    IN  (departure \div 60) * 60 + ((departure % 60) \div 5) * 5

\* Line 94, strftime("%H:%M").
strftime(t) ==
    LET h == t \div 60
        m == t % 60
    IN  << Digits[(h \div 10) + 1], Digits[(h % 10) + 1], ":",
           Digits[(m \div 10) + 1], Digits[(m % 10) + 1] >>

\* The order of characters: the digits, then ':'.
Code(c) == IF c = ":" THEN Len(Digits) + 1 ELSE DigitValue(c) + 1

\* a < b for strings, as sort compares its keys.
RECURSIVE StrLess(_, _)
StrLess(a, b) ==
    IF b = << >> THEN FALSE
    ELSE IF a = << >> THEN TRUE
    ELSE IF Head(a) # Head(b) THEN Code(Head(a)) < Code(Head(b))
    ELSE StrLess(Tail(a), Tail(b))

\* No record sorts before another.
NeverBefore(x, y) == FALSE

\* Line 102, key=lambda x: x["scheduled_time"]: x sorts before y.
Before(x, y) == StrLess(x.scheduled_time, y.scheduled_time)

\* Line 102, departures.sort(...): a stable sort, here by insertion.
RECURSIVE Insert(_, _)
Insert(sorted, x) ==
    IF sorted = << >> THEN << x >>
    ELSE IF Before(x, sorted[Len(sorted)])
         THEN Append(Insert(SubSeq(sorted, 1, Len(sorted) - 1), x),
                     sorted[Len(sorted)])
         ELSE Append(sorted, x)
RECURSIVE Sorted(_)
Sorted(departures) ==
    IF departures = << >> THEN << >>
    ELSE Insert(Sorted(SubSeq(departures, 1, Len(departures) - 1)),
                departures[Len(departures)])

\* str(n) for an integer.
RECURSIVE str(_)
str(n) ==
    IF n < 0 THEN << "-" >> \o str(-n)
    ELSE IF n < 10 THEN << Digits[n + 1] >>
    ELSE str(n \div 10) \o << Digits[(n % 10) + 1] >>

\* format_delay_text (lines 107-114).
format_delay_text(delay_minutes) ==
    IF delay_minutes = 0 THEN << "On Time" >>
    ELSE IF delay_minutes = 1 THEN << "+1 min" >>
    ELSE << "+" >> \o str(delay_minutes) \o << " mins" >>

\* Lines 80-100: one pass of the loop appends a record (of which the time
\* and the delay are kept).
AppendDeparture ==
    /\ pc["main"] = "d_loop"
    /\ Len(dep.departures) < dep.count
    /\ \E minutes_ahead \in RandInt(5, 120), delay \in generate_delay :
         dep' = [dep EXCEPT !.departures = Append(@,
                    [ scheduled_time |->
                          strftime(generate_departure_time(dep.base,
                                                           minutes_ahead)),
                      delay_minutes  |-> delay,
                      is_delayed     |-> delay > 0 ])]
    /\ UNCHANGED << pc, trains, is_speaking, should_stop, speak_btn,
                    refresh_btn, stop_btn, after, status, announcement,
                    tts_engine, llm_generator, model, playback_active, llm,
                    sd, batch, i, text, gen, log, stopAt, stopHit, report,
                    idleStop, norm, audio, refused >>

\* Lines 102-104: after count passes the list is sorted and returned.
SortDepartures ==
    /\ pc["main"] = "d_loop"
    /\ Len(dep.departures) >= dep.count
    /\ dep' = [dep EXCEPT !.made = dep.departures,
                          !.departures = Sorted(dep.departures)]
    /\ Goto("main", "d_format")
    /\ UNCHANGED << trains, is_speaking, should_stop, speak_btn, refresh_btn,
                    stop_btn, after, status, announcement, tts_engine,
                    llm_generator, model, playback_active, llm, sd, batch, i,
                    text, gen, log, stopAt, stopHit, report, idleStop, norm,
                    audio, refused >>

\* format_delay_text called on the delay of each record returned
\* (main.py:289-290, test_train_data.py:8-9).
FormatDelays ==
    /\ pc["main"] = "d_format"
    /\ dep' = [dep EXCEPT !.texts =
                  [ k \in 1..Len(dep.departures) |->
                        format_delay_text(dep.departures[k].delay_minutes) ]]
    /\ Goto("main", "d_done")
    /\ UNCHANGED << trains, is_speaking, should_stop, speak_btn, refresh_btn,
                    stop_btn, after, status, announcement, tts_engine,
                    llm_generator, model, playback_active, llm, sd, batch, i,
                    text, gen, log, stopAt, stopHit, report, idleStop, norm,
                    audio, refused >>

\* generate_train_departures(count) called at some time of day.
InitDepartures ==
    /\ pc = [t \in Threads |-> IF t = "main" THEN "d_loop" ELSE "idle"]
    /\ trains = << >>
    /\ is_speaking = FALSE
    /\ should_stop = FALSE
    /\ speak_btn = TRUE
    /\ refresh_btn = TRUE
    /\ stop_btn = FALSE
    /\ after = {}
    /\ status = "progress"
    /\ announcement = << >>
    /\ tts_engine = FALSE
    /\ llm_generator = FALSE
    /\ model = FALSE
    /\ playback_active = FALSE
    /\ llm = FALSE
    /\ sd = [state |-> "idle", idx |-> 0]
    /\ batch = << >>
    /\ i = 0
    /\ text = << >>
    /\ gen = NewGen
    /\ log = << >>
    /\ stopAt = NotStopped
    /\ stopHit = FALSE
    /\ report = "none"
    /\ idleStop = -1
    /\ norm = NoNorm
    /\ audio = NoAudio
    /\ refused = FALSE
    /\ \E count \in 0..MaxCount, base_time \in BaseTimes :
         dep = [NoDep EXCEPT !.count = count, !.base = base_time]

NextDepartures == AppendDeparture \/ SortDepartures \/ FormatDelays

SpecDepartures == InitDepartures /\ [][NextDepartures]_vars

\* ------------------------------------------------------------ the claims

\* The run of the worker has ended and made its report.
RunEnded == report # "none"

\* The records whose waveform played to its end in this run.
PlayedInFull == { j \in 1..BatchSize : Invoked("played", j) }

\* The steps of the pipeline a record is taken through.
PipelineSteps == {"generate", "speak", "normalize", "synthesize", "play"}

\* generate_announcement has returned to the worker, which has not used the
\* result yet.
GenReturned == pc["worker"] = "check2"

\* The generate and speak calls of the run, in the order they were made.
CallsMade == SelectSeq(log, LAMBDA e : e[1] \in {"generate", "speak"})

\* Every record of the batch taken through generate and then speak, in order.
AllCalls ==
    [ k \in 1..(2 * BatchSize) |->
        << IF k % 2 = 1 THEN "generate" ELSE "speak", (k + 1) \div 2 >> ]

\* speak() was called for record j and returned without starting playback.
SpeakFailed(j) ==
    /\ Invoked("speak", j)
    /\ ~Invoked("play", j)
    /\ \/ i > j
       \/ i = j /\ pc["worker"] \in {"check3", "loop", "end", "finally", "idle"}

\* C1: in a batch of three, when the token is set (and stop() called) while
\* the worker is inside the synthesis of the second record, at most one
\* announcement has played in full when the run ends, the second record's
\* waveform has not, and the run ends as stopped at the second record.
C1_StopDuringSecondSynthesis ==
    (RunEnded /\ stopAt = [i |-> 2, synth |-> TRUE]) =>
        /\ Cardinality(PlayedInFull) <= 1
        /\ 2 \notin PlayedInFull
        /\ report = "stopped"
        /\ i = 2

\* C2: once stop() has run its sd.stop() after a speak call of the worker
\* marked playback active and before the waveform finished, that waveform
\* does not play to its end.
C2_StopHaltsPlayback == stopHit => ~Invoked("played", i)

\* C3: after the token was set while record stopAt.i was being processed, no
\* step of the pipeline is invoked for any later record of the batch.
C3_NoLaterRecordAfterStop ==
    stopAt # NotStopped =>
        \A j \in 1..BatchSize : \A op \in PipelineSteps :
            j > stopAt.i => ~Invoked(op, j)

\* A run stopped at its first record, with two records left unprocessed.
C3_Witness ==
    /\ report = "stopped"
    /\ stopAt.i = 1
    /\ Invoked("generate", 1)
    /\ Len(batch) = BatchSize

\* C4: a generate call that began with the token set returns the interrupted
\* outcome and has loaded no model, requested no completion and pulled no
\* chunk.
C4_PresetStopsBeforeBackend ==
    (GenReturned /\ gen.preset) =>
        /\ text = InterruptedText
        /\ ~gen.loaded
        /\ ~gen.created
        /\ gen.pulled = 0

\* C5: a generate call one of whose stop checks returned true returns the
\* interrupted outcome, and not the text accumulated so far.
C5_ObservedReturnsInterrupted ==
    (GenReturned /\ gen.observed) =>
        /\ text = InterruptedText
        /\ text # Strip(gen.full_text)

\* A call interrupted after it had accumulated text.
C5_Witness == GenReturned /\ gen.observed /\ Strip(gen.full_text) # << >>

\* C6: with the token set, generate pulls at most one chunk, and a call that
\* pulled one returns the interrupted outcome.
C6_AtMostOnePullAfterSet ==
    /\ gen.sinceSet <= 1
    /\ (GenReturned /\ gen.sinceSet = 1) => gen.observed /\ text = InterruptedText

\* A call that was streaming when the token was set, pulled one more chunk
\* and returned.
C6_Witness ==
    /\ GenReturned
    /\ ~gen.preset
    /\ gen.pulled >= 2
    /\ gen.sinceSet = 1

\* C7: a generate call whose backend was unavailable or failed, and which
\* observed no cancellation, returns a non-empty sentence that contains the
\* record's train number and its destination.
C7_FallbackNamesTrain ==
    (GenReturned /\ gen.failed /\ ~gen.observed) =>
        /\ text # << >>
        /\ Contains(text, batch[i].train_number)
        /\ Contains(text, batch[i].destination)

\* C8: a run that ends with the token never set has taken every record of
\* the batch through generate and then speak.
C8_OnlyCancellationStopsEarly ==
    (RunEnded /\ ~should_stop) => CallsMade = AllCalls

\* C9: when speak() failed for a record and the run ends with the token not
\* set, every record of the batch, the later ones included, was taken
\* through generate and speak, in order.
C9_SynthFailureSkipsOneRecord ==
    \A j \in 1..BatchSize :
        (RunEnded /\ ~should_stop /\ SpeakFailed(j)) => CallsMade = AllCalls

\* A completed run whose first record's speak() failed.
C9_Witness == report = "completed" /\ ~should_stop /\ SpeakFailed(1)

\* C10: no two callers are inside the synthesizer's model load at once.
C10_SingleLoad == Cardinality({ t \in Threads : pc[t] = "lm_exec" }) <= 1

\* C11: the generator's backend is loaded at most once even when first
\* callers race: while the initialisation thread is inside load_model, the
\* worker's first generate call starts no second load of the language model.
C11_SingleLlmLoad == ~(pc["init"] = "ll_exec" /\ pc["worker"] = "ll_exec")

\* The terminal state of a run: the worker has left the loop and ended,
\* is_speaking is cleared and _on_speaking_done is queued.
RunTerminal ==
    /\ pc["worker"] = "idle"
    /\ ~is_speaking
    /\ "_on_speaking_done" \in after

\* C12: every batch run that is started eventually reaches its terminal
\* state (the worker out of the loop, is_speaking cleared, the completion
\* callback queued), whether it completes, is stopped or raises.
C12_RunTerminates == (pc["worker"] = "start") ~> RunTerminal

\* A run that ended in the except clause and reached the terminal state.
C12_Witness == RunTerminal /\ report = "error"

\* C13: every run ends by reporting one explicit termination reason, either
\* completed with the number of records fully announced, or stopped with the
\* index of the record it stopped at; no run ends with another report, or
\* with one that lacks the count or the index.
C13_ExplicitReason ==
    RunEnded =>
        \/ report = "completed" /\ "count" \in ReportArgs(report)
        \/ report = "stopped" /\ "index" \in ReportArgs(report)

\* C14: the token is written only by the controller (the two click
\* handlers), never by the worker; once set it stays set until
\* _on_speak_click resets it when it starts the next batch, which happens
\* only while no run is in progress.
C14_TokenWrittenByController ==
    [][ /\ should_stop' # should_stop => OnSpeakClick \/ OnStopClick
        /\ should_stop /\ ~should_stop' =>
             OnSpeakClick /\ ~is_speaking /\ pc["worker"] = "idle" ]_vars

\* The next batch has been started after a stopped one, the token reset.
C14_Witness ==
    pc["worker"] = "start" /\ status = "stopped" /\ ~should_stop

\* One call of speak(), from the call to the end of its playback.
FullPlay ==
    << << "speak", 0 >>, << "normalize", 0 >>, << "synthesize", 0 >>,
       << "play", 0 >>, << "played", 0 >> >>

\* A step of stop().
StopStep == pc[Stopper] # "idle" /\ pc'[Stopper] # pc[Stopper]

\* C15: stop() called while no playback is active changes nothing: with the
\* flag clear it returns at once and leaves every field as it was, and
\* while the device is idle none of its steps changes the device, the
\* model or what the callers of speak() do; a speak() called afterwards
\* plays as if stop() had not been called.
C15_StopWhileIdleIsNoOp ==
    [][ /\ StopStep /\ pc[Stopper] = "stop_chk" /\ ~playback_active =>
             /\ pc' = [pc EXCEPT ![Stopper] = "idle"]
             /\ UNCHANGED << model, playback_active, sd, status, log >>
        /\ StopStep /\ sd.state = "idle" =>
             /\ UNCHANGED << model, sd, status, log >>
             /\ \A c \in Callers : pc'[c] = pc[c] ]_vars

\* stop() found the player idle, and the one call of speak() made after it
\* has played to its end.
C15_Witness ==
    /\ idleStop >= 0
    /\ Calls = idleStop + 1
    /\ Len(log) >= Len(FullPlay)
    /\ SubSeq(log, Len(log) - Len(FullPlay) + 1, Len(log)) = FullPlay

\* _normalize_text has returned.
Normalized == pc["c1"] = "n_done"

\* C16: for every text, what _normalize_text returns holds no decimal digit
\* and no ':'.
C16_NoDigitNoColon ==
    Normalized =>
        \A k \in 1..Len(norm.text) : ~IsDigit(norm.text[k]) /\ norm.text[k] # ":"

\* C17: _normalize_text never raises, and when one of its rewriting steps
\* fails it returns exactly the text it was given, not a partly rewritten
\* one.
C17_FailureReturnsInput ==
    Normalized /\ norm.raised => norm.text = norm.given

\* C19: every waveform handed to the output device is the synthesized
\* samples followed by exactly half a second of silence, 24000 zero samples
\* at 48000 Hz: its length is the synthesized length plus 24000.
C19_HalfSecondOfSilence ==
    audio.handed =>
        /\ sample_rate = 48000
        /\ audio.played.samples = audio.synth.samples
        /\ audio.played.zeros = 24000
        /\ WaveLen(audio.played) = WaveLen(audio.synth) + 24000

\* Samples that are not all zero have been handed to the device.
C19_Witness ==
    /\ audio.handed
    /\ sd.state = "playing"
    /\ \E k \in 1..Len(audio.synth.samples) : audio.synth.samples[k] # 0

\* The place of a step in the pipeline of one record.
StepRank(op) ==
    CASE op = "generate"   -> 1
      [] op = "speak"      -> 2
      [] op = "normalize"  -> 3
      [] op = "synthesize" -> 4
      [] op = "play"       -> 5
      [] op = "played"     -> 6

\* C18: the records of a batch are processed in input order and one at a
\* time: the steps of a run are ordered by record and, for one record, go
\* forward from generate to normalize, synthesize and play; while the
\* device plays a record the worker is blocked in the play of that record,
\* so generate for the next one has not started.
C18_InOrderOneAtATime ==
    /\ \A a, b \in 1..Len(log) :
         a < b =>
            \/ log[a][2] < log[b][2]
            \/ /\ log[a][2] = log[b][2]
               /\ StepRank(log[a][1]) < StepRank(log[b][1])
    /\ \A a \in 1..Len(log) : log[a][2] \in 1..i
    /\ sd.state = "playing" => pc["worker"] = "s_wait" /\ sd.idx = i

\* Every step of every record of the batch has been taken.
C18_Witness ==
    \A j \in 1..BatchSize :
        \A op \in PipelineSteps \cup {"played"} : Invoked(op, j)

\* C20: at most one batch worker is active at any time: a start request
\* that arrives while a run is in progress (is_speaking set) starts no
\* second worker and does not reset the token; a worker is started only
\* when none is running, and no playback is started on the player while
\* another is active.
C20_OneWorkerAtATime ==
    [][ /\ on_speak_click /\ is_speaking =>
             UNCHANGED << pc, is_speaking, should_stop, batch, i, log, sd >>
        /\ pc'["worker"] = "start" /\ pc["worker"] # "start" =>
             pc["worker"] = "idle" /\ ~is_speaking
        /\ should_stop /\ ~should_stop' => ~is_speaking
        /\ sd'.state = "playing" /\ sd' # sd => sd.state = "idle" ]_vars

\* A start request was refused during this run, which goes on with its
\* token set.
C20_Witness == refused /\ is_speaking /\ should_stop /\ InLoop

\* C21: a run reports stopped only if the batch was cut short: when the
\* report is stopped, at least one record of the batch was not played in
\* full; a stop request that arrives after the last record has finished
\* playing does not make a stopped run of a fully announced batch.
C21_StoppedOnlyIfCutShort ==
    report = "stopped" => \E j \in 1..BatchSize : ~Invoked("played", j)

\* C22: the text of a generate call that observed the cancellation is never
\* surfaced: "[Interrupted]" is never in the announcement box, and the
\* worker that holds the result of such a call leaves the loop without
\* showing it or calling speak().
C22_InterruptedNeverSurfaced ==
    /\ [](announcement # InterruptedText)
    /\ [][ pc["worker"] = "check2" /\ gen.observed
             /\ pc'["worker"] # "check2" =>
                 /\ pc'["worker"] = "end"
                 /\ announcement' = announcement
                 /\ log' = log ]_vars

\* The second or a later generate call of a run has returned "[Interrupted]"
\* while the box shows the announcement of an earlier record.
C22_Witness ==
    /\ GenReturned
    /\ gen.observed
    /\ text = InterruptedText
    /\ i > 1
    /\ announcement # << >>

\* The record of the call lacks a field the prompt is built from.
FieldMissing == ~(RequiredFields \subseteq DOMAIN batch[1])

\* C23: generate_announcement treats a record with a missing field as a
\* caller error in every state of the backend: it returns no text for such
\* a record, whether the model is loaded, loadable or not.
C23_MissingFieldIsCallerError == FieldMissing => ~GenReturned

\* The initialisation thread has made its attempt to load the synthesizer's
\* model and is past it.
FirstTtsLoadOver == tts_engine /\ pc["init"] \notin {"tts_new", "lm_exec"}

\* C24: over a sequence of calls of the synthesizer that do not overlap,
\* the load of its model is attempted at most once: after the first
\* attempt, whether it succeeded or failed, a later speak() or load_model()
\* starts no other load.
C24_LoadAttemptedOnce == FirstTtsLoadOver => pc["worker"] # "lm_exec"

\* generate_train_departures has returned, and format_delay_text has been
\* applied to what it returned.
Returned == pc["main"] \in {"d_format", "d_done"}
Formatted == pc["main"] = "d_done"

\* C25: generate_train_departures(count) returns exactly count records, in
\* non-decreasing order of scheduled_time, each with delay_minutes in 0..60
\* and is_delayed true exactly when delay_minutes > 0; format_delay_text
\* maps 0 to "On Time", 1 to "+1 min" and any other n to "+n mins".
C25_DeparturesAndDelayText ==
    /\ Returned =>
         /\ Len(dep.departures) = dep.count
         /\ \A k \in 1..Len(dep.departures) - 1 :
              ~StrLess(dep.departures[k + 1].scheduled_time,
                       dep.departures[k].scheduled_time)
         /\ \A k \in 1..Len(dep.departures) :
              /\ dep.departures[k].delay_minutes \in 0..60
              /\ dep.departures[k].is_delayed
                     = (dep.departures[k].delay_minutes > 0)
    /\ Formatted =>
         \A k \in 1..Len(dep.departures) :
            LET n == dep.departures[k].delay_minutes IN
            dep.texts[k] = CASE n = 0 -> << "On Time" >>
                             [] n = 1 -> << "+1 min" >>
                             [] OTHER -> << "+" >> \o str(n) \o << " mins" >>

\* A list of MaxCount records whose order the sort has changed, one of them
\* on time and one delayed, has been returned and its delays formatted.
C25_Witness ==
    /\ Formatted
    /\ dep.count = MaxCount
    /\ dep.departures # dep.made
    /\ \E k \in 1..Len(dep.departures) : dep.texts[k] = << "On Time" >>
    /\ \E k \in 1..Len(dep.departures) : dep.departures[k].is_delayed

====
